---- MODULE Spec2Model ----
(***************************************************************************)
(* State-machine model of uploader_lambda/app.py: the Lambda handler that  *)
(* downloads an S3 object into /tmp, probes it, extracts a thumbnail,      *)
(* authenticates against YouTube, uploads the video in chunks, notifies a  *)
(* webhook and removes its scratch files.                                  *)
(*                                                                         *)
(* Python values are encoded as follows.  None is the empty tuple and a    *)
(* present value v is the one-element tuple <<v>>.  An S3 key is the tuple *)
(* of its '/'-separated segments, so "" is <<>> and "videos/a.mp4" is      *)
(* <<"videos", "a.mp4">>.  A scratch path is the tuple of its segments.    *)
(***************************************************************************)
EXTENDS Integers, Sequences, FiniteSets, TLC

\* ------------------------------------------------------------------------
\* Bounds
\* ------------------------------------------------------------------------

\* Number of intermediate progress answers the chunk log keeps: of a longer
\* run of progress answers it holds the most recent ones.
MaxChunks == 1

\* ------------------------------------------------------------------------
\* Values
\* ------------------------------------------------------------------------

None == <<>>

Some(v) == <<v>>

\* Python truthiness of an optional string: None and "" are falsy.
Truthy(v) == v # None /\ v # Some("")

\* Python truthiness of an optional S3 key: None and "" (no segment) are falsy.
KeyTruthy(k) == k # None /\ k # Some(<<>>)

Procs == {1, 2}

RETRIABLE_STATUS_CODES == {500, 502, 503, 504}

YOUTUBE_URL_PREFIX == "https://www.youtube.com/watch?v="

THUMBNAIL_SUFFIX == "-thumbnail.jpg"

\* os.path.basename of a key given as its segments.
Basename(k) == IF k = <<>> THEN "" ELSE k[Len(k)]

\* local_file_path = f'{temp_dir}/{os.path.basename(s3_key)}'
LocalFilePath(k) == <<"tmp", "downloads", Basename(k)>>

\* thumbnail_path = f'/tmp/{uuid.uuid4()}.jpg': one fresh name per call, and
\* generate_thumbnail is called once per invocation.
ThumbnailPath(i) == <<"tmp", "uuid-" \o ToString(i) \o ".jpg">>

\* thumbnail_s3_key = f"{os.path.basename(s3_key)}-thumbnail.jpg"
ThumbnailS3Key(k) == Basename(k) \o THUMBNAIL_SUFFIX

\* s3_url = f"https://{bucket_name}.s3.{region}.amazonaws.com/{key}"
S3Url(bucket, region, key) ==
    "https://" \o bucket \o ".s3." \o region \o ".amazonaws.com/" \o key

\* f"https://www.youtube.com/watch?v={video_id}"
YoutubeUrl(id) == YOUTUBE_URL_PREFIX \o id

\* ------------------------------------------------------------------------
\* Inputs and environment
\* ------------------------------------------------------------------------

S3Keys == {<<>>, <<"videos", "a.mp4">>, <<"other", "a.mp4">>, <<"videos", "b.mp4">>}

Events ==
    [s3_key : {None} \cup {Some(k) : k \in S3Keys},
     title : {None, Some("My match")},
     webhook_url : {None, Some(""), Some("https://hook.example/cb")}]

\* The event of an invocation that is never started.
NoEvent == [s3_key |-> None, title |-> None, webhook_url |-> None]

\* os.environ: the two secret identifiers may be unset; the bucket names and
\* the region are set.
Envs ==
    [YOUTUBE_API_SECRET_ID : {None, Some("yt-secret")},
     WEBHOOK_SECRET_ID : {None, Some("wh-secret")}]

S3_THUMBNAIL_BUCKET_NAME == "thumbs"

AWS_REGION == "us-west-1"

\* The credential blob in the secret store.  OTHERS stands for TOKEN_URI,
\* CLIENT_ID and CLIENT_SECRET all being present; expired is whether the
\* access token has expired.
Blob(t, r, o, x) == [TOKEN |-> t, REFRESH_TOKEN |-> r, OTHERS |-> o, expired |-> x]

Blobs ==
    {Blob(Some("tok"), Some("rtok"), TRUE, FALSE),
     Blob(Some("tok"), Some("rtok"), TRUE, TRUE),
     Blob(None, Some("rtok"), TRUE, TRUE),
     Blob(Some("tok"), None, TRUE, TRUE),
     Blob(Some("tok"), Some("rtok"), FALSE, FALSE)}

WebhookSecrets == {"", "whsec"}

\* What ffmpeg.probe reports: err is a raised exception, video is whether a
\* stream of codec_type 'video' exists, sdur and fdur are the 'duration'
\* fields of that stream and of the format, in whole seconds.
Probe(e, v, s, f) == [err |-> e, video |-> v, sdur |-> s, fdur |-> f]

ProbeError == Probe(TRUE, FALSE, None, None)

MediaInfos ==
    {Probe(FALSE, FALSE, None, Some(100)),
     Probe(FALSE, TRUE, None, None),
     Probe(FALSE, TRUE, Some(120), Some(100)),
     Probe(FALSE, TRUE, None, Some(100))}

FileSizes == {1024}

VideoIds == {None, Some(""), Some("abc123")}

HttpErrorStatuses == {400, 401, 403, 500, 502, 503, 504}

WebhookStatuses == {200, 404, 500}

\* ------------------------------------------------------------------------
\* State
\* ------------------------------------------------------------------------

VARIABLES
    env,              \* os.environ
    secrets,          \* the secret store: [youtube |-> blob, webhook |-> string]
    objects,          \* the source bucket: key |-> media information of the object
    fs,               \* scratch storage: path |-> [src, size, meta]
    thumbBucket,      \* thumbnail bucket: key |-> source key of the thumbnail
    pc,               \* position of each invocation in lambda_handler
    event,            \* the event of each invocation
    net,              \* services each invocation has sent a request to
    trace,            \* stages each invocation has started, in order
    probes,           \* number of ffmpeg.probe calls of each invocation
    file_size,
    duration_ms,
    thumbnail_path,
    thumbnail_url,
    chunkLog,         \* answers to request.next_chunk(), in order
    video_id,
    secret_lookup,    \* how get_webhook_secret ended
    webhook_secret,
    posted,           \* the requests handed to requests.post, in order
    webhook_response, \* status code of the webhook response
    removed,          \* os.remove calls of each invocation and how they ended
    ret               \* the value lambda_handler returned

shared == <<env, secrets, objects, fs, thumbBucket>>

locals == <<event, net, trace, probes, file_size, duration_ms, thumbnail_path,
            thumbnail_url, chunkLog, video_id, secret_lookup, webhook_secret,
            posted, webhook_response>>

vars == <<shared, pc, locals, removed, ret>>

NoRet == [statusCode |-> 0, body |-> [error |-> ""]]

Exists(p) == p \in DOMAIN fs

FsWrite(p, v) == [q \in DOMAIN fs \cup {p} |-> IF q = p THEN v ELSE fs[q]]

FsRemove(p) == [q \in DOMAIN fs \ {p} |-> fs[q]]

Key(i) == event[i].s3_key[1]

\* The keys of the events of these invocations.
KeysOf(running) ==
    {event[i].s3_key[1] : i \in {j \in running : KeyTruthy(event[j].s3_key)}}

\* The state of the invocations before any has taken a step.
InitLocals(running) ==
    /\ fs = <<>>
    /\ thumbBucket = <<>>
    /\ \A i \in Procs \ running : event[i] = NoEvent
    /\ pc = [i \in Procs |-> IF i \in running THEN "start" ELSE "idle"]
    /\ net = [i \in Procs |-> {}]
    /\ trace = [i \in Procs |-> <<>>]
    /\ probes = [i \in Procs |-> 0]
    /\ file_size = [i \in Procs |-> None]
    /\ duration_ms = [i \in Procs |-> None]
    /\ thumbnail_path = [i \in Procs |-> None]
    /\ thumbnail_url = [i \in Procs |-> None]
    /\ chunkLog = [i \in Procs |-> <<>>]
    /\ video_id = [i \in Procs |-> None]
    /\ secret_lookup = [i \in Procs |-> "none"]
    /\ webhook_secret = [i \in Procs |-> None]
    /\ posted = [i \in Procs |-> None]
    /\ webhook_response = [i \in Procs |-> None]
    /\ removed = [i \in Procs |-> <<>>]
    /\ ret = [i \in Procs |-> NoRet]

InitWith(running) ==
    /\ env \in Envs
    /\ secrets \in [youtube : Blobs, webhook : WebhookSecrets]
    /\ event \in [Procs -> Events]
    /\ objects \in [KeysOf(running) -> MediaInfos]
    /\ InitLocals(running)

\* One invocation, running alone.
Init == InitWith({1})

\* ------------------------------------------------------------------------
\* lambda_handler
\* ------------------------------------------------------------------------

\* return {"statusCode": code, "body": json.dumps(body)}
Return(i, code, body) ==
    /\ pc' = [pc EXCEPT ![i] = "done"]
    /\ ret' = [ret EXCEPT ![i] = [statusCode |-> code, body |-> body]]

\* except Exception as e: return 500 with {"error": str(e)}
HandlerExcept(i, msg) == Return(i, 500, [error |-> msg])

Goto(i, label) ==
    /\ pc' = [pc EXCEPT ![i] = label]
    /\ UNCHANGED ret

\* An exception raised outside the handler's try block leaves the handler.
Escape(i) ==
    /\ pc' = [pc EXCEPT ![i] = "crashed"]
    /\ UNCHANGED ret

Started(i, stage) == trace' = [trace EXCEPT ![i] = Append(@, stage)]

Contacted(i, service) == net' = [net EXCEPT ![i] = @ \cup {service}]

\* Lines 348-371: read the event, then check s3_key.  The default title
\* f"TennisBuddies - {os.path.basename(s3_key)}" is evaluated before
\* event.get is called, whether or not the event has a title, and
\* os.path.basename(None) raises TypeError.
ReadEvent(i) ==
    /\ pc[i] = "start"
    /\ IF event[i].s3_key = None
       THEN Escape(i)
       ELSE IF ~KeyTruthy(event[i].s3_key)
            THEN Return(i, 400, [error |-> "Missing required parameter: s3_key"])
            ELSE Goto(i, "head_object")
    /\ UNCHANGED <<removed, shared, locals>>

\* Lines 374-376: s3.head_object.
HeadObject(i) ==
    /\ pc[i] = "head_object"
    /\ Started(i, "head_object")
    /\ Contacted(i, "s3")
    /\ \E ok \in BOOLEAN :
          IF ok
          THEN /\ \E n \in FileSizes : file_size' = [file_size EXCEPT ![i] = Some(n)]
               /\ Goto(i, "download_file")
          ELSE /\ HandlerExcept(i, "head_object failed")
               /\ UNCHANGED file_size
    /\ UNCHANGED <<removed, shared, event, probes, duration_ms, thumbnail_path,
                   thumbnail_url, chunkLog, video_id, secret_lookup,
                   webhook_secret, posted, webhook_response>>

\* Lines 378-388: os.makedirs and s3.download_file.  A failed transfer leaves
\* no file at the target path.
DownloadFile(i) ==
    /\ pc[i] = "download_file"
    /\ Started(i, "download_file")
    /\ Contacted(i, "s3")
    /\ \E ok \in BOOLEAN :
          IF ok
          THEN /\ fs' = FsWrite(LocalFilePath(Key(i)),
                               [src |-> Key(i), size |-> "data",
                                meta |-> objects[Key(i)]])
               /\ Goto(i, "probe")
          ELSE /\ HandlerExcept(i, "download_file failed")
               /\ UNCHANGED fs
    /\ UNCHANGED <<removed, env, secrets, objects, thumbBucket, event, probes, file_size,
                   duration_ms, thumbnail_path, thumbnail_url, chunkLog,
                   video_id, secret_lookup, webhook_secret, posted,
                   webhook_response>>

\* ffmpeg.probe of a scratch file: the media information of the file, or an
\* exception (always so when the file is not there).
ProbeResults(path) ==
    IF Exists(path) THEN {ProbeError, fs[path].meta} ELSE {ProbeError}

\* Lines 107-125 and 164-183: the duration in milliseconds that a probe
\* result yields, None when it yields none.
DurationOf(p) ==
    IF p.err \/ ~p.video THEN None
    ELSE IF p.sdur # None THEN Some(p.sdur[1] * 1000)
    ELSE IF p.fdur # None THEN Some(p.fdur[1] * 1000)
    ELSE None

\* Lines 105-128, get_video_duration: every failure is turned into None.
GetVideoDuration(p) == DurationOf(p)

\* AfterProbe with a missing duration treated as fatal.
AfterProbe_Abort(i, d) ==
    IF d = None THEN HandlerExcept(i, "probe failed") ELSE Goto(i, "thumbnail")

\* Lines 390-394: whatever get_video_duration returned, the handler goes on
\* to generate_thumbnail.
AfterProbe(i, d) == Goto(i, "thumbnail")

\* Line 391: duration_ms = get_video_duration(local_file_path).
ProbeDuration(i) ==
    /\ pc[i] = "probe"
    /\ Started(i, "probe")
    /\ probes' = [probes EXCEPT ![i] = @ + 1]
    /\ \E p \in ProbeResults(LocalFilePath(Key(i))) :
          /\ duration_ms' = [duration_ms EXCEPT ![i] = GetVideoDuration(p)]
          /\ AfterProbe(i, GetVideoDuration(p))
    /\ UNCHANGED <<removed, shared, event, net, file_size, thumbnail_path,
                   thumbnail_url, chunkLog, video_id, secret_lookup,
                   webhook_secret, posted, webhook_response>>

\* Lines 172-183: generate_thumbnail uses the duration it was given and
\* computes one from its own probe only when it was given None.
ThumbnailDuration(given, p) == IF given # None THEN given ELSE DurationOf(p)

\* What running ffmpeg leaves at the thumbnail path: a frame, a zero-length
\* file, or nothing (ffmpeg.Error, or any other exception).
FfmpegOutcomes == {"data", "empty", "nofile"}

\* Lines 241-252: the thumbnail counts only if the file exists and is not
\* empty.
ValidThumbnail(files, path) ==
    IF path \in DOMAIN files /\ files[path].size = "data" THEN Some(path) ELSE None

\* Line 394, generate_thumbnail (lines 143-258): every failure is turned
\* into None.  os.access is taken to succeed on a file that exists, and the
\* search of subdirectories of /tmp (lines 230-238) to find nothing.
GenerateThumbnail(i) ==
    /\ pc[i] = "thumbnail"
    /\ Started(i, "thumbnail")
    /\ LET vp == LocalFilePath(Key(i))
           tp == ThumbnailPath(i)
       IN  IF ~Exists(vp)
           THEN /\ thumbnail_path' = [thumbnail_path EXCEPT ![i] = None]
                /\ UNCHANGED <<fs, probes>>
           ELSE /\ probes' = [probes EXCEPT ![i] = @ + 1]
                /\ \E p \in ProbeResults(vp) :
                      IF p.err \/ ~p.video \/ ThumbnailDuration(duration_ms[i], p) = None
                      THEN /\ thumbnail_path' = [thumbnail_path EXCEPT ![i] = None]
                           /\ UNCHANGED fs
                      ELSE \E out \in FfmpegOutcomes :
                              /\ fs' = IF out = "nofile" THEN fs
                                       ELSE FsWrite(tp, [src |-> fs[vp].src,
                                                         size |-> out,
                                                         meta |-> fs[vp].meta])
                              /\ thumbnail_path' =
                                    [thumbnail_path EXCEPT ![i] = ValidThumbnail(fs', tp)]
    /\ Goto(i, "thumbnail_upload")
    /\ UNCHANGED <<removed, env, secrets, objects, thumbBucket, event, net, file_size,
                   duration_ms, thumbnail_url, chunkLog, video_id,
                   secret_lookup, webhook_secret, posted, webhook_response>>

\* Lines 396-405 with upload_to_s3 (lines 268-285): the thumbnail is put
\* under the thumbnail key; a failed transfer yields no URL.
UploadThumbnail(i) ==
    /\ pc[i] = "thumbnail_upload"
    /\ IF thumbnail_path[i] # None /\ Exists(thumbnail_path[i][1])
       THEN /\ Contacted(i, "s3")
            /\ UNCHANGED thumbnail_path
            /\ \E ok \in BOOLEAN :
                  IF ok
                  THEN /\ thumbBucket' =
                             [k \in DOMAIN thumbBucket \cup {ThumbnailS3Key(Key(i))} |->
                                IF k = ThumbnailS3Key(Key(i))
                                THEN fs[thumbnail_path[i][1]].src
                                ELSE thumbBucket[k]]
                       /\ thumbnail_url' =
                             [thumbnail_url EXCEPT ![i] =
                                Some(S3Url(S3_THUMBNAIL_BUCKET_NAME, AWS_REGION,
                                           ThumbnailS3Key(Key(i))))]
                  ELSE UNCHANGED <<thumbBucket, thumbnail_url>>
       ELSE /\ thumbnail_path' = [thumbnail_path EXCEPT ![i] = None]
            /\ UNCHANGED <<net, thumbBucket, thumbnail_url>>
    /\ Goto(i, "authenticate")
    /\ UNCHANGED <<removed, env, secrets, objects, fs, event, trace, probes, file_size,
                   duration_ms, chunkLog, video_id, secret_lookup,
                   webhook_secret, posted, webhook_response>>

\* Line 48: all([token, refresh_token, token_uri, client_id, client_secret]).
AllFields(b) == Truthy(b.TOKEN) /\ Truthy(b.REFRESH_TOKEN) /\ b.OTHERS

\* Line 61, creds.valid: the Credentials object is built from the stored
\* fields with no expiry, so whether the library reports an expired token as
\* invalid is open; a token that has not expired is valid.
CredsValid(b) == IF b.expired THEN BOOLEAN ELSE {TRUE}

\* AuthRaise with the error swallowed instead of raised again.
AuthRaise_Swallowed(i, msg) == Goto(i, "upload")

\* Lines 66-68: get_authenticated_service logs the error and raises it again,
\* and lambda_handler turns it into the 500 response.
AuthRaise(i, msg) == HandlerExcept(i, msg)

\* Line 408, get_authenticated_service (lines 25-68).  The secret is read
\* and never written; no request goes to the token endpoint.
Authenticate(i) ==
    /\ pc[i] = "authenticate"
    /\ Started(i, "authenticate")
    /\ IF ~Truthy(env.YOUTUBE_API_SECRET_ID)
       THEN /\ AuthRaise(i, "YOUTUBE_API_SECRET_ID environment variable not set")
            /\ UNCHANGED net
       ELSE /\ Contacted(i, "secretsmanager")
            /\ \E ok \in BOOLEAN :
                  IF ~ok
                  THEN AuthRaise(i, "get_secret_value failed")
                  ELSE IF ~AllFields(secrets.youtube)
                       THEN AuthRaise(i, "Missing credential fields in secret")
                       ELSE \E valid \in CredsValid(secrets.youtube) :
                               IF ~valid
                               THEN AuthRaise(i, "Invalid credentials")
                               ELSE Goto(i, "upload")
    /\ UNCHANGED <<removed, shared, event, probes, file_size, duration_ms,
                   thumbnail_path, thumbnail_url, chunkLog, video_id,
                   secret_lookup, webhook_secret, posted, webhook_response>>

\* Lines 292-311: MediaFileUpload opens the file; when that raises,
\* upload_to_youtube returns None (lines 327-329).
StartUpload(i) ==
    /\ pc[i] = "upload"
    /\ Started(i, "upload")
    /\ IF Exists(LocalFilePath(Key(i)))
       THEN Goto(i, "next_chunk")
       ELSE Goto(i, "check_video_id")
    /\ video_id' = [video_id EXCEPT ![i] = None]
    /\ UNCHANGED <<removed, shared, event, net, probes, file_size, duration_ms,
                   thumbnail_path, thumbnail_url, chunkLog, secret_lookup,
                   webhook_secret, posted, webhook_response>>

\* For a progress answer, status is the percentage that status.progress()
\* reports (line 318); otherwise it is the HTTP status.
Answer(k, s) == [kind |-> k, status |-> s]

ProgressValues == {0, 50}

\* The chunk log after one more progress answer.
Progressed(log, a) ==
    IF Len(log) < MaxChunks THEN Append(log, a) ELSE Append(Tail(log), a)

\* Lines 315-329: one request.next_chunk().  A progress answer keeps the
\* loop going; a final answer ends it with response.get('id'); an HttpError
\* or any other exception ends upload_to_youtube with None.
NextChunk(i) ==
    /\ pc[i] = "next_chunk"
    /\ Contacted(i, "youtube")
    /\ \/ /\ \E p \in ProgressValues :
                chunkLog' = [chunkLog EXCEPT ![i] =
                                Progressed(@, Answer("progress", p))]
          /\ UNCHANGED <<pc, ret, video_id>>
       \/ /\ chunkLog' = [chunkLog EXCEPT ![i] = Append(@, Answer("final", 200))]
          /\ \E v \in VideoIds : video_id' = [video_id EXCEPT ![i] = v]
          /\ Goto(i, "check_video_id")
       \/ \E s \in HttpErrorStatuses :
             /\ chunkLog' = [chunkLog EXCEPT ![i] = Append(@, Answer("http_error", s))]
             /\ video_id' = [video_id EXCEPT ![i] = None]
             /\ Goto(i, "check_video_id")
       \/ /\ chunkLog' = [chunkLog EXCEPT ![i] = Append(@, Answer("exception", 0))]
          /\ video_id' = [video_id EXCEPT ![i] = None]
          /\ Goto(i, "check_video_id")
    /\ UNCHANGED <<removed, shared, event, trace, probes, file_size, duration_ms,
                   thumbnail_path, thumbnail_url, secret_lookup,
                   webhook_secret, posted, webhook_response>>

\* NotVideoId as a comparison with None only.
NotVideoId_OnlyNone(v) == v = None

\* Line 419: not video_id.
NotVideoId(v) == ~Truthy(v)

\* WebhookRequested as a comparison of the URL with None only.
WebhookRequested_NotNone(url, id) == url # None /\ Truthy(id)

\* Line 429: if webhook_url and video_id.
WebhookRequested(url, id) == Truthy(url) /\ Truthy(id)

\* Lines 419-429: no video id is the 500 response; otherwise the webhook is
\* sent when webhook_url is set, and cleanup follows.
CheckVideoId(i) ==
    /\ pc[i] = "check_video_id"
    /\ IF NotVideoId(video_id[i])
       THEN Return(i, 500, [error |-> "Failed to upload video to YouTube"])
       ELSE IF WebhookRequested(event[i].webhook_url, video_id[i])
            THEN Goto(i, "webhook_secret")
            ELSE Goto(i, "cleanup")
    /\ UNCHANGED <<removed, shared, locals>>

\* Line 432, get_webhook_secret (lines 75-95): None when WEBHOOK_SECRET_ID
\* is not set and None when reading the secret fails.
GetWebhookSecret(i) ==
    /\ pc[i] = "webhook_secret"
    /\ Started(i, "notify")
    /\ IF ~Truthy(env.WEBHOOK_SECRET_ID)
       THEN /\ secret_lookup' = [secret_lookup EXCEPT ![i] = "not_configured"]
            /\ webhook_secret' = [webhook_secret EXCEPT ![i] = None]
            /\ UNCHANGED net
       ELSE /\ Contacted(i, "secretsmanager")
            /\ \E ok \in BOOLEAN :
                  IF ok
                  THEN /\ secret_lookup' = [secret_lookup EXCEPT ![i] = "ok"]
                       /\ webhook_secret' =
                             [webhook_secret EXCEPT ![i] = Some(secrets.webhook)]
                  ELSE /\ secret_lookup' = [secret_lookup EXCEPT ![i] = "error"]
                       /\ webhook_secret' = [webhook_secret EXCEPT ![i] = None]
    /\ Goto(i, "webhook_post")
    /\ UNCHANGED <<removed, shared, event, probes, file_size, duration_ms,
                   thumbnail_path, thumbnail_url, chunkLog, video_id, posted,
                   webhook_response>>

\* WebhookPayload without the thumbnail URL.
WebhookPayload_NoThumbnail(i) ==
    [youtube_video_id |-> video_id[i][1],
     thumbnail_url |-> None,
     duration |-> duration_ms[i]]

\* Lines 434-438: the webhook payload.
WebhookPayload(i) ==
    [youtube_video_id |-> video_id[i][1],
     thumbnail_url |-> thumbnail_url[i],
     duration |-> duration_ms[i]]

\* Lines 434-441: json.dumps of the payload, as its key/value pairs in order.
JsonDumps(payload) ==
    <<<<"youtube_video_id", payload.youtube_video_id>>,
      <<"thumbnail_url", payload.thumbnail_url>>,
      <<"duration", payload.duration>>>>

\* Lines 454-458: the hex digest of HMAC-SHA256 over the body under the key;
\* it is determined by the two and never empty.
Hmac(key, data) == <<"hmac-sha256", key, data>>

\* SigningKeyPresent as a comparison with None only.
SigningKeyPresent_NotNone(s) == s # None

\* Line 449: if webhook_secret.
SigningKeyPresent(s) == Truthy(s)

\* Lines 444-461: the headers of the webhook request.
WebhookHeaders(secret, data) ==
    IF SigningKeyPresent(secret)
    THEN [h \in {"Content-Type", "x-webhook-signature"} |->
            IF h = "Content-Type" THEN <<"application/json">>
            ELSE Hmac(secret[1], data)]
    ELSE [h \in {"Content-Type"} |-> <<"application/json">>]

\* WebhookExcept with the exception passed on to the handler's except clause.
WebhookExcept_Raises(i) == HandlerExcept(i, "webhook failed")

\* Lines 471-472: an exception of the webhook step is logged and dropped.
WebhookExcept(i) == Goto(i, "cleanup")

\* Lines 434-472: build, sign and post the webhook request.
PostWebhook(i) ==
    /\ pc[i] = "webhook_post"
    /\ Contacted(i, "webhook")
    /\ LET data == JsonDumps(WebhookPayload(i))
       IN  posted' = [posted EXCEPT ![i] =
                         Append(@, [url |-> event[i].webhook_url[1],
                                    headers |-> WebhookHeaders(webhook_secret[i], data),
                                    data |-> data])]
    /\ \/ /\ WebhookExcept(i)
          /\ UNCHANGED webhook_response
       \/ \E s \in WebhookStatuses :
             /\ webhook_response' = [webhook_response EXCEPT ![i] = Some(s)]
             /\ Goto(i, "cleanup")
    /\ UNCHANGED <<removed, shared, event, trace, probes, file_size, duration_ms,
                   thumbnail_path, thumbnail_url, chunkLog, video_id,
                   secret_lookup, webhook_secret>>

Removal(what, ok) == [file |-> what, ok |-> ok]

\* RemoveExcept with the exception passed on to the handler's except clause.
RemoveExcept_Raises(i, next) == HandlerExcept(i, "os.remove failed")

\* Lines 478-479: an exception of os.remove is logged and dropped.
RemoveExcept(i, next) == Goto(i, next)

\* Lines 475-479: os.remove(local_file_path).  It fails when the file is
\* not there and may fail when it is.
RemoveSource(i) ==
    /\ pc[i] = "cleanup"
    /\ \E fails \in BOOLEAN :
          IF Exists(LocalFilePath(Key(i))) /\ ~fails
          THEN /\ fs' = FsRemove(LocalFilePath(Key(i)))
               /\ removed' = [removed EXCEPT ![i] = Append(@, Removal("source", TRUE))]
               /\ Goto(i, "cleanup_thumbnail")
          ELSE /\ UNCHANGED fs
               /\ removed' = [removed EXCEPT ![i] = Append(@, Removal("source", FALSE))]
               /\ RemoveExcept(i, "cleanup_thumbnail")
    /\ UNCHANGED <<env, secrets, objects, thumbBucket, locals>>

\* Line 498: a requests.Response is truthy only when its status is below 400.
WebhookResponseField(r) == IF r # None /\ r[1] < 400 THEN r ELSE None

\* Lines 489-500: the success body.
SuccessBody(i) ==
    [s3_key |-> Key(i),
     fileSize |-> file_size[i][1],
     youtubeVideoId |-> video_id[i][1],
     youtubeUrl |-> YoutubeUrl(video_id[i][1]),
     thumbnailUrl |-> thumbnail_url[i],
     duration |-> duration_ms[i],
     webhookResponse |-> WebhookResponseField(webhook_response[i])]

\* Lines 481-500: remove the thumbnail if there is one, then return 200;
\* a failure of os.remove is logged (lines 486-487).
RemoveThumbnailAndReturn(i) ==
    /\ pc[i] = "cleanup_thumbnail"
    /\ IF thumbnail_path[i] # None /\ Exists(thumbnail_path[i][1])
       THEN \E fails \in BOOLEAN :
               /\ fs' = IF fails THEN fs ELSE FsRemove(thumbnail_path[i][1])
               /\ removed' = [removed EXCEPT ![i] =
                                 Append(@, Removal("thumbnail", ~fails))]
       ELSE UNCHANGED <<fs, removed>>
    /\ Return(i, 200, SuccessBody(i))
    /\ UNCHANGED <<env, secrets, objects, thumbBucket, locals>>

Next ==
    \E i \in Procs :
       \/ ReadEvent(i)
       \/ HeadObject(i)
       \/ DownloadFile(i)
       \/ ProbeDuration(i)
       \/ GenerateThumbnail(i)
       \/ UploadThumbnail(i)
       \/ Authenticate(i)
       \/ StartUpload(i)
       \/ NextChunk(i)
       \/ CheckVideoId(i)
       \/ GetWebhookSecret(i)
       \/ PostWebhook(i)
       \/ RemoveSource(i)
       \/ RemoveThumbnailAndReturn(i)

Spec == Init /\ [][Next]_vars

\* Two invocations running at the same time on one scratch filesystem, for
\* two different keys with the same basename; the first asks for a webhook.
InitConcurrent ==
    /\ env = [YOUTUBE_API_SECRET_ID |-> Some("yt-secret"),
              WEBHOOK_SECRET_ID |-> None]
    /\ secrets = [youtube |-> Blob(Some("tok"), Some("rtok"), TRUE, FALSE),
                  webhook |-> "whsec"]
    /\ event = [i \in Procs |->
                  [s3_key |-> Some(IF i = 1 THEN <<"videos", "a.mp4">>
                                   ELSE <<"other", "a.mp4">>),
                   title |-> None,
                   webhook_url |-> IF i = 1 THEN Some("https://hook.example/cb")
                                   ELSE None]]
    /\ objects = [k \in KeysOf(Procs) |-> Probe(FALSE, TRUE, Some(120), Some(100))]
    /\ InitLocals(Procs)

SpecConcurrent == InitConcurrent /\ [][Next]_vars

\* The handler runs to its end: a step that can be taken is taken.
SpecFair == Init /\ [][Next]_vars /\ WF_vars(Next)

\* ------------------------------------------------------------------------
\* Properties
\* ------------------------------------------------------------------------

Range(s) == {s[n] : n \in 1..Len(s)}

IsPrefix(s, t) == Len(s) <= Len(t) /\ \A n \in 1..Len(s) : s[n] = t[n]

Returned(i) == pc[i] = "done"

Succeeded(i) == Returned(i) /\ ret[i].statusCode = 200

Failed(i) == Returned(i) /\ ret[i].statusCode = 500

SourceFile(i) == LocalFilePath(Key(i))

\* The download of invocation i succeeded: a later stage has started.
Downloaded(i) == Len(trace[i]) >= 3

\* C1: once the source scratch file has been created, neither it nor the
\* thumbnail scratch file is in scratch storage when the handler has
\* returned, whatever the status.
C1_ScratchFilesRemoved ==
    \A i \in Procs :
       (Returned(i) /\ Downloaded(i)) =>
          (~Exists(SourceFile(i)) /\ ~Exists(ThumbnailPath(i)))

\* C2: an event whose s3_key is absent or empty ends in the 400 response
\* with an error field, and no request has been sent to any service.
C2_MissingKeyIs400 ==
    \A i \in Procs :
       (pc[i] \in {"done", "crashed"} /\ ~KeyTruthy(event[i].s3_key)) =>
          /\ pc[i] = "done"
          /\ ret[i].statusCode = 400
          /\ "error" \in DOMAIN ret[i].body
          /\ net[i] = {}

\* The upload loop of invocation i is over.
UploadOver(i) == "upload" \in Range(trace[i]) /\ pc[i] \notin {"upload", "next_chunk"}

\* C3: once the upload is over, every chunk request that failed with a
\* retriable status was followed by another chunk request, and a chunk
\* request that failed with any other status was the last one.
C3_RetriableRetried ==
    \A i \in Procs :
       \A n \in 1..Len(chunkLog[i]) :
          (UploadOver(i) /\ chunkLog[i][n].kind = "http_error") =>
             IF chunkLog[i][n].status \in RETRIABLE_STATUS_CODES
             THEN n < Len(chunkLog[i])
             ELSE n = Len(chunkLog[i])

\* Invocation i leaves get_authenticated_service in this step, having read a
\* complete credential blob.
AuthStepWithBlob(i) ==
    /\ pc[i] = "authenticate"
    /\ AllFields(secrets.youtube)
    /\ \/ pc'[i] = "upload"
       \/ pc'[i] = "done" /\ ret'[i].body.error = "Invalid credentials"

\* C4: a step of get_authenticated_service that found an expired token with
\* a refresh token has sent a request to the token endpoint and has left
\* the refreshed credential in the secret store; no other step sends a
\* request to the token endpoint.
C4_RefreshPersisted ==
    [][\A i \in Procs :
          /\ (AuthStepWithBlob(i) /\ secrets.youtube.expired
                /\ Truthy(secrets.youtube.REFRESH_TOKEN)) =>
                ("oauth2" \in net'[i] /\ ~secrets'.youtube.expired)
          /\ ("oauth2" \in net'[i] \ net[i]) =>
                (AuthStepWithBlob(i) /\ secrets.youtube.expired
                   /\ Truthy(secrets.youtube.REFRESH_TOKEN))]_vars

\* C5: a 200 response carries the non-empty video id of the final chunk
\* answer and the URL made of the fixed prefix and that id; an upload that
\* ended without an id is answered with 500.
C5_SuccessHasVideoId ==
    \A i \in Procs :
       /\ Succeeded(i) =>
             /\ ret[i].body.youtubeVideoId # ""
             /\ Some(ret[i].body.youtubeVideoId) = video_id[i]
             /\ ret[i].body.youtubeUrl =
                   "https://www.youtube.com/watch?v=" \o ret[i].body.youtubeVideoId
             /\ chunkLog[i][Len(chunkLog[i])].kind = "final"
       /\ (Returned(i) /\ UploadOver(i) /\ video_id[i] \in {None, Some("")}) =>
             ret[i].statusCode = 500

C5_Witness ==
    \E i \in Procs : Succeeded(i) /\ ret[i].body.youtubeVideoId = "abc123"

StageOrder ==
    <<"head_object", "download_file", "probe", "thumbnail", "authenticate",
      "upload", "notify">>

\* The number of stages started when the failure with this message occurs.
FailedStage(msg) ==
    CASE msg = "head_object failed" -> 1
      [] msg = "download_file failed" -> 2
      [] msg = "Failed to upload video to YouTube" -> 6
      [] OTHER -> 5

\* Authentication cannot succeed in this environment.
AuthMustFail == ~Truthy(env.YOUTUBE_API_SECRET_ID) \/ ~AllFields(secrets.youtube)

\* The last chunk request of invocation i raised.
ChunkRaised(i) ==
    /\ chunkLog[i] # <<>>
    /\ chunkLog[i][Len(chunkLog[i])].kind \in {"http_error", "exception"}

\* C6: the stages started are an initial part of the fixed order, so each
\* is started at most once and none after a later one; after a failure of
\* fetch, authentication or upload no later stage is started and the
\* response is 500 with a body of one error field.
C6_StagesInOrder ==
    \A i \in Procs :
       /\ IsPrefix(trace[i], StageOrder)
       /\ Failed(i) =>
             /\ DOMAIN ret[i].body = {"error"}
             /\ Len(trace[i]) = FailedStage(ret[i].body.error)
       /\ AuthMustFail => Len(trace[i]) <= 5
       /\ ChunkRaised(i) => Len(trace[i]) = 6
       /\ ((AuthMustFail /\ Len(trace[i]) = 5 /\ pc[i] # "authenticate")
              \/ (ChunkRaised(i) /\ pc[i] # "check_video_id")) => Failed(i)

C6_Witness ==
    \E i \in Procs :
       /\ Failed(i)
       /\ AuthMustFail
       /\ trace[i] = SubSeq(StageOrder, 1, 5)

\* get_video_duration of invocation i has returned None.
NoDuration(i) == "probe" \in Range(trace[i]) /\ duration_ms[i] = None

AuthErrors ==
    {"YOUTUBE_API_SECRET_ID environment variable not set",
     "get_secret_value failed",
     "Missing credential fields in secret",
     "Invalid credentials"}

\* C7: when get_video_duration has returned None the invocation goes on:
\* generate_thumbnail is called and probes again; when the file yields no
\* duration there is no thumbnail; the invocation does not return before
\* authentication; a 200 response has a null duration and, without a
\* thumbnail, a null thumbnail URL.
C7_NoDurationGoesOn ==
    \A i \in Procs :
       NoDuration(i) =>
          /\ Len(trace[i]) = 3 => pc[i] = "thumbnail"
          /\ Len(trace[i]) >= 4 => probes[i] = 2
          /\ (Len(trace[i]) >= 4 /\ Exists(SourceFile(i))
                /\ DurationOf(fs[SourceFile(i)].meta) = None) =>
                (thumbnail_path[i] = None /\ ~Exists(ThumbnailPath(i)))
          /\ (Len(trace[i]) >= 4 /\ pc[i] # "thumbnail_upload"
                /\ thumbnail_path[i] = None) =>
                thumbnail_url[i] = None
          /\ Returned(i) =>
                /\ Len(trace[i]) >= 5
                /\ Len(trace[i]) = 5 =>
                      (Failed(i) /\ ret[i].body.error \in AuthErrors)
          /\ Succeeded(i) =>
                /\ ret[i].body.duration = None
                /\ thumbnail_path[i] = None => ret[i].body.thumbnailUrl = None

C7_Witness ==
    \E i \in Procs :
       /\ NoDuration(i)
       /\ Succeeded(i)
       /\ probes[i] = 2
       /\ thumbnail_path[i] = None
       /\ ret[i].body.duration = None
       /\ ret[i].body.thumbnailUrl = None

\* requests.post of invocation i raised.
PostRaised(i) ==
    posted[i] # None /\ webhook_response[i] = None /\ pc[i] # "webhook_post"

\* C8: when the webhook POST raised, the invocation goes on to cleanup and
\* returns 200 with the video id of the upload.
C8_WebhookFailureIsSoft ==
    \A i \in Procs :
       PostRaised(i) =>
          /\ pc[i] \in {"cleanup", "cleanup_thumbnail", "done"}
          /\ Returned(i) =>
                /\ ret[i].statusCode = 200
                /\ Truthy(video_id[i])
                /\ ret[i].body.youtubeVideoId = video_id[i][1]

C8_Witness ==
    \E i \in Procs : PostRaised(i) /\ Succeeded(i)

\* C9: when reading the signing key failed, the 200 response has a null
\* webhook response.
C9_SecretFailureReportsNull ==
    \A i \in Procs :
       (Succeeded(i) /\ secret_lookup[i] = "error") =>
          ret[i].body.webhookResponse = None

Signed(r) == "x-webhook-signature" \in DOMAIN r.headers

\* C10: the posted request has the signature header exactly when a
\* non-empty signing key was obtained, its value is then the digest under
\* that key and not empty; with no key identifier configured the request
\* is posted without the header.
C10_SignedIffKey ==
    \A i \in Procs :
       /\ posted[i] # None =>
             /\ Signed(posted[i][1]) <=>
                   (webhook_secret[i] # None /\ webhook_secret[i][1] # "")
             /\ Signed(posted[i][1]) =>
                   /\ posted[i][1].headers["x-webhook-signature"] # <<>>
                   /\ posted[i][1].headers["x-webhook-signature"] =
                         Hmac(webhook_secret[i][1], posted[i][1].data)
       /\ (secret_lookup[i] = "not_configured" /\ pc[i] # "webhook_post") =>
             (posted[i] # None /\ ~Signed(posted[i][1]))

C10_Witness ==
    \E i \in Procs :
       /\ secret_lookup[i] = "not_configured"
       /\ posted[i] # None
       /\ ~Signed(posted[i][1])
       /\ webhook_response[i] = Some(200)

\* The upload of invocation i ended with a final answer and a non-empty id.
Uploaded(i) ==
    /\ UploadOver(i)
    /\ Truthy(video_id[i])
    /\ chunkLog[i][Len(chunkLog[i])].kind = "final"

\* C11: an invocation posts at most one webhook request, and only after an
\* upload that ended with a non-empty id and for a non-empty webhook_url;
\* without a webhook_url nothing is posted, the signing key is not read,
\* and an invocation whose upload gave an id returns 200 with a null
\* webhook response.
C11_OnePostAfterUpload ==
    \A i \in Procs :
       /\ Len(posted[i]) <= 1
       /\ posted[i] # <<>> =>
             (Uploaded(i) /\ Truthy(event[i].webhook_url)
                /\ posted[i][1].url = event[i].webhook_url[1])
       /\ (pc[i] # "idle" /\ ~Truthy(event[i].webhook_url)) =>
             /\ posted[i] = <<>>
             /\ "webhook" \notin net[i]
             /\ secret_lookup[i] = "none"
             /\ "notify" \notin Range(trace[i])
             /\ (Returned(i) /\ UploadOver(i) /\ Truthy(video_id[i])) =>
                   (Succeeded(i) /\ ret[i].body.webhookResponse = None)

C11_Witness ==
    \E i \in Procs :
       /\ Succeeded(i)
       /\ event[i].webhook_url = Some("")
       /\ posted[i] = <<>>
       /\ ret[i].body.webhookResponse = None

\* C12: no exception leaves lambda_handler, and what it returns has a
\* status code of 200, 400 or 500.
C12_AlwaysStructuredResponse ==
    \A i \in Procs :
       /\ pc[i] # "crashed"
       /\ Returned(i) => ret[i].statusCode \in {200, 400, 500}

\* Invocation i has downloaded its source file and its upload is not over.
HoldsSourceFile(i) ==
    pc[i] \in {"probe", "thumbnail", "thumbnail_upload", "authenticate",
               "upload", "next_chunk"}

\* C13: between its download and the end of its upload, the source scratch
\* file of an invocation is in scratch storage and holds the object that
\* this invocation downloaded, whatever an invocation for another key does.
C13_SourceFileUntouched ==
    \A i \in Procs :
       (HoldsSourceFile(i)
          /\ \A j \in Procs \ {i} : pc[j] # "idle" => event[j].s3_key # event[i].s3_key) =>
          (Exists(SourceFile(i)) /\ fs[SourceFile(i)].src = Key(i))

\* C14: the chunk loop of upload_to_youtube ends: an invocation that is
\* requesting chunks eventually has a final answer or a failure.
C14_UploadTerminates ==
    \A i \in Procs : (pc[i] = "next_chunk") ~> (pc[i] # "next_chunk")

\* An os.remove of invocation i failed.
RemovalFailed(i) == \E n \in 1..Len(removed[i]) : ~removed[i][n].ok

\* C15: after a failed os.remove the invocation goes on and returns 200
\* with the body made of the values it had before cleanup; when removing
\* the source file failed and there is a thumbnail, removing the thumbnail
\* is still attempted.
C15_RemovalFailureIsSoft ==
    \A i \in Procs :
       /\ RemovalFailed(i) =>
             /\ pc[i] \in {"cleanup_thumbnail", "done"}
             /\ Returned(i) =>
                   (ret[i].statusCode = 200 /\ ret[i].body = SuccessBody(i))
       /\ (Returned(i) /\ removed[i] # <<>> /\ ~removed[i][1].ok
             /\ thumbnail_path[i] # None) =>
             (Len(removed[i]) = 2 /\ removed[i][2].file = "thumbnail")

C15_Witness ==
    \E i \in Procs :
       /\ Succeeded(i)
       /\ Len(removed[i]) = 2
       /\ ~removed[i][1].ok
       /\ ~removed[i][2].ok

\* C16: in a 200 response the webhook response field is the status code of
\* the webhook response whenever there was one, and is null only when no
\* request was posted or no response came back.
C16_ResponseStatusReported ==
    \A i \in Procs :
       Succeeded(i) =>
          /\ webhook_response[i] # None =>
                ret[i].body.webhookResponse = webhook_response[i]
          /\ ret[i].body.webhookResponse = None =>
                (posted[i] = <<>> \/ webhook_response[i] = None)

RECURSIVE KeyString(_)
\* The key as one string, its segments joined by '/'.
KeyString(k) ==
    IF k = <<>> THEN ""
    ELSE IF Len(k) = 1 THEN k[1]
    ELSE k[1] \o "/" \o KeyString(Tail(k))

\* The URL of the thumbnail stored under the source key with the suffix.
SuffixedKeyUrl(k) ==
    Some(S3Url(S3_THUMBNAIL_BUCKET_NAME, AWS_REGION, KeyString(k) \o THUMBNAIL_SUFFIX))

\* C17: of two invocations with different source keys that have both stored
\* a thumbnail, each stored it under its source key followed by the suffix,
\* and so under different remote keys.
C17_ThumbnailKeysDistinct ==
    \A i, j \in Procs :
       (i # j /\ thumbnail_url[i] # None /\ thumbnail_url[j] # None
          /\ Key(i) # Key(j)) =>
          /\ thumbnail_url[i] = SuffixedKeyUrl(Key(i))
          /\ thumbnail_url[j] = SuffixedKeyUrl(Key(j))
          /\ thumbnail_url[i] # thumbnail_url[j]

\* C18: in a 200 response after a webhook request, the body of that request
\* is the serialised video id, thumbnail URL and duration of the response.
C18_PayloadMatchesBody ==
    \A i \in Procs :
       (Succeeded(i) /\ posted[i] # <<>>) =>
          posted[i][1].data =
             JsonDumps([youtube_video_id |-> ret[i].body.youtubeVideoId,
                        thumbnail_url |-> ret[i].body.thumbnailUrl,
                        duration |-> ret[i].body.duration])

C18_Witness ==
    \E i \in Procs :
       /\ Succeeded(i)
       /\ posted[i] # <<>>
       /\ ret[i].body.thumbnailUrl # None
       /\ ret[i].body.duration = Some(120000)
       /\ posted[i][1].data[2][2] = ret[i].body.thumbnailUrl

====
